---- MODULE Spec2Model ----
(***************************************************************************)
(* Model of savegame_reader.py: the Hero record codec (Hero.from_bytes,    *)
(* Hero.to_bytes), the save-file codec (SaveGame.from_file,                *)
(* SaveGame.save_to_file) and the interactive editor (edit_hero, main).    *)
(* Byte strings are sequences over 0..255 (index i of Python is index i+1  *)
(* here); str values are sequences of code points.                         *)
(***************************************************************************)
EXTENDS Integers, Sequences, FiniteSets, TLC

VARIABLES
    hpc,        \* codec run: "input", "hero", "encoded", "failed" ("off" in other runs)
    data,       \* the bytes handed to Hero.from_bytes
    hero,       \* the Hero object (NoHero before decoding)
    edited,     \* names of the Hero attributes assigned after decoding
    out,        \* what Hero.to_bytes returned (a Result)
    herr,       \* the exception that ended the codec run, "none" otherwise
    fpc,        \* file run: "input", "loaded", "saved", "failed" ("off" in other runs)
    file,       \* the bytes of the file SaveGame.from_file reads
    savegame,   \* the SaveGame object (NoSave before loading)
    written,    \* what save_to_file wrote (a Result)
    ferr,       \* the exception that ended the file run, "none" otherwise
    mpc,        \* editor run: "start", "select", "edit", "done", "exit0", "exit1"
    argv,       \* sys.argv[1:]
    disk,       \* the file system: path -> bytes, for the paths that exist
    orig,       \* the file system when main started
    wlog,       \* the paths opened for writing, in order
    msave,      \* main's savegame (NoSave before loading)
    output_file,\* main's output_file (<<>> before it is computed)
    active,     \* active_heroes, as indices into msave.heroes
    cur,        \* index into active of the hero edit_hero works on
    nedit,      \* edit_hero iterations that prompted for a value
    chose_save  \* the user has typed 'save'

hvars == <<hpc, data, hero, edited, out, herr>>
fvars == <<fpc, file, savegame, written, ferr>>
mvars == <<mpc, argv, disk, orig, wlog, msave, output_file, active, cur, nedit, chose_save>>
vars == <<hvars, fvars, mvars>>

----------------------------------------------------------------------------
(* Program constants *)

CHR_SIZE == 1754

(* Bounds of the input space *)
MaxSeed == 1        \* fill patterns 0..MaxSeed for the bytes of a record
MaxExtra == 1       \* records of up to CHR_SIZE + MaxExtra bytes
MaxAssign == 1      \* attribute assignments per codec run
MaxHeroes == 2      \* hero records in a file
MaxRem == 1         \* bytes behind the last whole record: 0..MaxRem and CHR_SIZE - 1
MaxEdits == 1       \* value prompts per editor run

----------------------------------------------------------------------------
(* Python built-ins the code relies on *)

Min(a, b) == IF a < b THEN a ELSE b
Max(a, b) == IF a > b THEN a ELSE b

\* A slice bound as Python normalises it for a sequence of n items.
PyIdx(i, n) == IF i < 0 THEN Max(i + n, 0) ELSE Min(i, n)

\* s[a:b]
PySlice(s, a, b) ==
    LET n == Len(s)
        lo == PyIdx(a, n)
        hi == PyIdx(b, n)
    IN  IF hi <= lo THEN <<>> ELSE SubSeq(s, lo + 1, hi)

\* s[a:]
PySliceFrom(s, a) == PySlice(s, a, Len(s))

\* bytearray: s[a:b] = x (the bytearray grows or shrinks to fit x)
SliceAssign(s, a, b, x) ==
    LET n == Len(s)
        lo == PyIdx(a, n)
        hi == Max(PyIdx(b, n), lo)
    IN  SubSeq(s, 1, lo) \o x \o SubSeq(s, hi + 1, n)

\* bytearray(n)
Zeros(n) == [i \in 1..n |-> 0]

\* bytes.split(b'\x00')[0]
RECURSIVE UpToNull(_)
UpToNull(s) ==
    IF s = <<>> \/ Head(s) = 0 THEN <<>> ELSE <<Head(s)>> \o UpToNull(Tail(s))

\* bytes.decode('latin-1'): byte b is the code point b
DecodeLatin1(bs) == [i \in 1..Len(bs) |-> bs[i]]

\* str.encode('latin-1') raises UnicodeEncodeError for a code point above 255
CanEncodeLatin1(str) == \A i \in 1..Len(str) : str[i] <= 255
EncodeLatin1(str) == [i \in 1..Len(str) |-> str[i]]

\* bytes.ljust(w, b'\x00')
LJust(bs, w) == IF Len(bs) >= w THEN bs ELSE bs \o Zeros(w - Len(bs))

\* Little-endian two's complement, as struct '<h' (w = 2) and '<i' (w = 4).
\* The top byte carries the sign, so that no intermediate value leaves the
\* signed 32-bit range.
RECURSIVE LESigned(_)
LESigned(bs) ==
    IF Len(bs) = 1 THEN (IF bs[1] >= 128 THEN bs[1] - 256 ELSE bs[1])
    ELSE Head(bs) + 256 * LESigned(Tail(bs))

\* floor division and non-negative remainder give the two's complement bytes
RECURSIVE LEBytes(_, _)
LEBytes(v, w) == IF w = 0 THEN <<>> ELSE <<v % 256>> \o LEBytes(v \div 256, w - 1)

\* struct.error unless v fits w bytes. Every integer of the model fits four
\* bytes: values beyond the signed 32-bit range are outside the model.
InRange(v, w) == IF w = 2 THEN v >= -32768 /\ v <= 32767 ELSE TRUE

\* (a variant of PackBytes that writes the most significant byte first)
RECURSIVE BEBytes(_, _)
BEBytes(v, w) == IF w = 0 THEN <<>> ELSE BEBytes(v \div 256, w - 1) \o <<v % 256>>
PackBytesBigEndian(w, v) == BEBytes(v, w)

\* struct.unpack_from(fmt, data, off)[0]
UnpackFrom(w, d, off) == LESigned(SubSeq(d, off + 1, off + w))
\* the bytes struct.pack / struct.pack_into writes for an in-range v
PackBytes(w, v) == LEBytes(v, w)

----------------------------------------------------------------------------
(* Hero.from_bytes *)

unpack_trait(d, offset) ==
    [normal |-> d[offset + 1], current |-> d[offset + 2], modifier |-> d[offset + 3]]

unpack_att_par(d, offset) == [i \in 1..7 |-> d[offset + i]]

NoHero == [absent |-> TRUE]

HeroOf(d) ==
    [ name |-> DecodeLatin1(UpToNull(PySlice(d, 0, 16))),
      name2 |-> DecodeLatin1(UpToNull(PySlice(d, 16, 32))),
      slots_used |-> d[33],
      typus |-> d[34],
      gender |-> d[35],
      size |-> UnpackFrom(2, d, 35),
      weight |-> d[38],
      god |-> d[39],
      level |-> d[40],
      exp |-> UnpackFrom(4, d, 40),
      money |-> UnpackFrom(4, d, 44),
      rs_bonus1 |-> d[49],
      rs_bonus2 |-> d[50],
      rs_handycap |-> d[51],
      remaining_bp |-> d[52],
      courage |-> unpack_trait(d, 52),
      intelligence |-> unpack_trait(d, 55),
      charisma |-> unpack_trait(d, 58),
      dexterity |-> unpack_trait(d, 61),
      agility |-> unpack_trait(d, 64),
      intuition |-> unpack_trait(d, 67),
      strength |-> unpack_trait(d, 70),
      superstition |-> unpack_trait(d, 73),
      vertigo |-> unpack_trait(d, 76),
      claustrophobia |-> unpack_trait(d, 79),
      greed |-> unpack_trait(d, 82),
      necrophobia |-> unpack_trait(d, 85),
      curiosity |-> unpack_trait(d, 88),
      temper |-> unpack_trait(d, 91),
      vital_energy_current |-> UnpackFrom(2, d, 94),
      vital_energy_max |-> UnpackFrom(2, d, 96),
      astral_energy_current |-> UnpackFrom(2, d, 98),
      astral_energy_max |-> UnpackFrom(2, d, 100),
      magic_resistance |-> d[103],
      basis_attack_parade |-> d[104],
      att_vals |-> unpack_att_par(d, 104),
      par_vals |-> unpack_att_par(d, 111),
      att_bon_weapon |-> d[119],
      par_bon_weapon |-> d[120],
      weapon_type |-> d[121],
      curr_attack_modifier |-> d[122],
      perm_vit_energ_loss |-> d[123],
      unknown1 |-> d[124],
      unknown2 |-> d[125],
      unknown3 |-> d[126],
      unknown4 |-> d[127],
      hunger |-> d[128],
      thirst |-> d[129],
      unknown5 |-> d[130],
      view_direction |-> d[131],
      num_left_actions_per_fight_round |-> d[132],
      unknown6 |-> d[133],
      unknown7 |-> d[134],
      fight_id_last_enemy |-> d[135],
      idx_heroes_group |-> d[136],
      unknown8 |-> d[137],
      unknown9 |-> d[138],
      pos_in_heroes_group |-> d[139],
      portrait |-> PySlice(d, 139, 139 + 1024),
      unknown_tail |-> PySliceFrom(d, 139 + 1024) ]

\* A Result is [ok, err, val]: val is meaningful only when ok.
Ok(v) == [ok |-> TRUE, err |-> "none", val |-> v]
Raise(e) == [ok |-> FALSE, err |-> e, val |-> <<>>]
\* the values of variables that hold no object yet
NoResult == [ok |-> FALSE, err |-> "unset", val |-> <<>>]
NoSave == [absent |-> TRUE]

\* (a variant of from_bytes whose length check is off by one)
from_bytes_off_by_one(d) ==
    IF Len(d) < CHR_SIZE - 1 THEN Raise("ValueError") ELSE Ok(HeroOf(d))

from_bytes(d) ==
    IF Len(d) < CHR_SIZE THEN Raise("ValueError") ELSE Ok(HeroOf(d))

----------------------------------------------------------------------------
(* Hero.to_bytes *)

pack_trait(offset, trait) ==
    << <<1, offset, trait.normal>>,
       <<1, offset + 1, trait.current>>,
       <<1, offset + 2, trait.modifier>> >>

\* The scalar stores of to_bytes in source order, each <<width, offset, value>>:
\* width 1 is data[offset] = value, 2 is pack_into('<h'), 4 is pack_into('<i').
Stores(h) ==
    << <<1, 32, h.slots_used>>, <<1, 33, h.typus>>, <<1, 34, h.gender>>,
       <<2, 35, h.size>>,
       <<1, 37, h.weight>>, <<1, 38, h.god>>, <<1, 39, h.level>>,
       <<4, 40, h.exp>>, <<4, 44, h.money>>,
       <<1, 48, h.rs_bonus1>>, <<1, 49, h.rs_bonus2>>,
       <<1, 50, h.rs_handycap>>, <<1, 51, h.remaining_bp>> >>
    \o pack_trait(52, h.courage) \o pack_trait(55, h.intelligence)
    \o pack_trait(58, h.charisma) \o pack_trait(61, h.dexterity)
    \o pack_trait(64, h.agility) \o pack_trait(67, h.intuition)
    \o pack_trait(70, h.strength) \o pack_trait(73, h.superstition)
    \o pack_trait(76, h.vertigo) \o pack_trait(79, h.claustrophobia)
    \o pack_trait(82, h.greed) \o pack_trait(85, h.necrophobia)
    \o pack_trait(88, h.curiosity) \o pack_trait(91, h.temper)
    \o << <<2, 94, h.vital_energy_current>>, <<2, 96, h.vital_energy_max>>,
          <<2, 98, h.astral_energy_current>>, <<2, 100, h.astral_energy_max>>,
          <<1, 102, h.magic_resistance>>, <<1, 103, h.basis_attack_parade>>,
          <<1, 104, h.att_vals[1]>>, <<1, 105, h.att_vals[2]>>,
          <<1, 106, h.att_vals[3]>>, <<1, 107, h.att_vals[4]>>,
          <<1, 108, h.att_vals[5]>>, <<1, 109, h.att_vals[6]>>,
          <<1, 110, h.att_vals[7]>>,
          <<1, 111, h.par_vals[1]>>, <<1, 112, h.par_vals[2]>>,
          <<1, 113, h.par_vals[3]>>, <<1, 114, h.par_vals[4]>>,
          <<1, 115, h.par_vals[5]>>, <<1, 116, h.par_vals[6]>>,
          <<1, 117, h.par_vals[7]>>,
          <<1, 118, h.att_bon_weapon>>, <<1, 119, h.par_bon_weapon>>,
          <<1, 120, h.weapon_type>>, <<1, 121, h.curr_attack_modifier>>,
          <<1, 122, h.perm_vit_energ_loss>>,
          <<1, 123, h.unknown1>>, <<1, 124, h.unknown2>>,
          <<1, 125, h.unknown3>>, <<1, 126, h.unknown4>>,
          <<1, 127, h.hunger>>, <<1, 128, h.thirst>>,
          <<1, 129, h.unknown5>>, <<1, 130, h.view_direction>>,
          <<1, 131, h.num_left_actions_per_fight_round>>,
          <<1, 132, h.unknown6>>, <<1, 133, h.unknown7>>,
          <<1, 134, h.fight_id_last_enemy>>, <<1, 135, h.idx_heroes_group>>,
          <<1, 136, h.unknown8>>, <<1, 137, h.unknown9>>,
          <<1, 138, h.pos_in_heroes_group>> >>

\* A store raises when its value does not fit: ValueError for a byte store,
\* struct.error for pack_into.
StoreFits(st) == IF st[1] = 1 THEN st[3] \in 0..255 ELSE InRange(st[3], st[1])
StoreError(st) == IF st[1] = 1 THEN "ValueError" ELSE "struct.error"

\* The bytes one store writes.
StoreBytes(st) ==
    IF st[1] = 1 THEN << st[3] >> ELSE PackBytes(st[1], st[3])

\* The stores applied to d one after the other: the first store whose value
\* does not fit raises; otherwise byte i holds what the last store covering
\* it wrote (the length of d is unchanged).
Covers(st, i) == i > st[2] /\ i <= st[2] + st[1]

SetMin(S) == CHOOSE x \in S : \A y \in S : x <= y
SetMax(S) == CHOOSE x \in S : \A y \in S : x >= y

ApplyStores(d, sts) ==
    LET bad == { k \in 1..Len(sts) : ~StoreFits(sts[k]) }
        covered == UNION { (sts[k][2] + 1)..(sts[k][2] + sts[k][1]) : k \in 1..Len(sts) }
        last(i) == sts[SetMax({ k \in 1..Len(sts) : Covers(sts[k], i) })]
    IN  IF bad # {} THEN Raise(StoreError(sts[SetMin(bad)]))
        ELSE Ok([i \in 1..Len(d) |->
                    IF i \in covered
                    THEN StoreBytes(last(i))[i - last(i)[2]]
                    ELSE d[i]])

\* lines 195-196: the two name fields
PackNames(h) ==
    IF ~CanEncodeLatin1(h.name) \/ ~CanEncodeLatin1(h.name2)
    THEN Raise("UnicodeEncodeError")
    ELSE Ok(SliceAssign(
               SliceAssign(Zeros(CHR_SIZE), 0, 16, LJust(EncodeLatin1(h.name), 16)),
               16, 32, LJust(EncodeLatin1(h.name2), 16)))

\* (a variant of PackPortrait that never stores the portrait)
PackPortraitSkipped(d, h) == d

\* lines 288-290: the portrait is stored only when it is 1024 bytes long
PackPortrait(d, h) ==
    IF Len(h.portrait) = 1024 THEN SliceAssign(d, 139, 139 + 1024, h.portrait) ELSE d

\* lines 292-294: the tail is stored at 1163, whatever its length
PackTail(d, h) ==
    SliceAssign(d, 139 + 1024, 139 + 1024 + Len(h.unknown_tail), h.unknown_tail)

to_bytes(h) ==
    LET names == PackNames(h) IN
    IF ~names.ok THEN names
    ELSE LET scalars == ApplyStores(names.val, Stores(h)) IN
         IF ~scalars.ok THEN scalars
         ELSE Ok(PackTail(PackPortrait(scalars.val, h), h))

----------------------------------------------------------------------------
(* Inputs of the codec runs *)

\* A 16-byte name field: k letters, zero padding, and a non-zero byte at
\* (1-based) position g when g lies behind the terminating zero.
NameField(k, g) ==
    [i \in 1..16 |-> IF i <= k THEN 65 ELSE IF i = g /\ g > k + 1 THEN 66 ELSE 0]

NameFields == { NameField(k, g) : k \in {0, 3, 16}, g \in {0, 6} }
Name2Fields == { NameField(2, g) : g \in {0, 9} }

\* A record of len bytes: the two name fields, the group index at byte 135
\* and a fill pattern everywhere else.
MkRecord(seed, n1, n2, grp, len) ==
    [i \in 1..len |->
        IF i <= 16 THEN n1[i]
        ELSE IF i <= 32 THEN n2[i - 16]
        ELSE IF i = 136 THEN grp
        ELSE (seed * 101 + i * 37) % 256]

RecordLengths == {0, 1000, CHR_SIZE - 1} \cup { CHR_SIZE + e : e \in 0..MaxExtra }

HeroBuffers ==
    { MkRecord(seed, n1, n2, 1, len) :
        seed \in 0..MaxSeed, n1 \in NameFields, n2 \in Name2Fields,
        len \in RecordLengths }

\* Values assigned to Hero attributes after decoding.
ExpValues == {-2, 2147483647}
NameValues == { [i \in 1..3 |-> 66], [i \in 1..17 |-> 66], <<66, 8364>> }
Name2Values == { [i \in 1..17 |-> 67] }
PortraitValues == { [i \in 1..1023 |-> 7], [i \in 1..1025 |-> 7] }
TailValues == { [i \in 1..590 |-> 9], [i \in 1..592 |-> 9] }

----------------------------------------------------------------------------
(* Codec runs: decode a buffer, assign attributes, encode *)

HeroInit ==
    /\ hpc = "input"
    /\ data \in HeroBuffers
    /\ hero = NoHero
    /\ edited = {}
    /\ out = NoResult
    /\ herr = "none"
    /\ fpc = "off"
    /\ file = <<>>
    /\ savegame = NoSave
    /\ written = NoResult
    /\ ferr = "none"
    /\ mpc = "off"
    /\ argv = <<>>
    /\ disk = <<>>
    /\ orig = <<>>
    /\ wlog = <<>>
    /\ msave = NoSave
    /\ output_file = <<>>
    /\ active = <<>>
    /\ cur = 0
    /\ nedit = 0
    /\ chose_save = FALSE

FromBytes ==
    /\ hpc = "input"
    /\ LET r == from_bytes(data) IN
         IF r.ok
         THEN /\ hero' = r.val
              /\ hpc' = "hero"
              /\ herr' = "none"
         ELSE /\ hero' = hero
              /\ hpc' = "failed"
              /\ herr' = r.err
    /\ UNCHANGED <<data, edited, out, fvars, mvars>>

CanAssign(f) == f \in edited \/ Cardinality(edited \ {"exp"}) < MaxAssign

SetExp ==
    /\ hpc = "hero"
    /\ \E v \in ExpValues : hero' = [hero EXCEPT !.exp = v]
    /\ edited' = edited \cup {"exp"}
    /\ UNCHANGED <<hpc, data, out, herr, fvars, mvars>>

SetName ==
    /\ hpc = "hero"
    /\ CanAssign("name")
    /\ \E v \in NameValues : hero' = [hero EXCEPT !.name = v]
    /\ edited' = edited \cup {"name"}
    /\ UNCHANGED <<hpc, data, out, herr, fvars, mvars>>

SetName2 ==
    /\ hpc = "hero"
    /\ CanAssign("name2")
    /\ \E v \in Name2Values : hero' = [hero EXCEPT !.name2 = v]
    /\ edited' = edited \cup {"name2"}
    /\ UNCHANGED <<hpc, data, out, herr, fvars, mvars>>

SetPortrait ==
    /\ hpc = "hero"
    /\ CanAssign("portrait")
    /\ \E v \in PortraitValues : hero' = [hero EXCEPT !.portrait = v]
    /\ edited' = edited \cup {"portrait"}
    /\ UNCHANGED <<hpc, data, out, herr, fvars, mvars>>

SetUnknownTail ==
    /\ hpc = "hero"
    /\ CanAssign("unknown_tail")
    /\ \E v \in TailValues : hero' = [hero EXCEPT !.unknown_tail = v]
    /\ edited' = edited \cup {"unknown_tail"}
    /\ UNCHANGED <<hpc, data, out, herr, fvars, mvars>>

ToBytes ==
    /\ hpc = "hero"
    /\ out' = to_bytes(hero)
    /\ hpc' = IF out'.ok THEN "encoded" ELSE "failed"
    /\ herr' = out'.err
    /\ UNCHANGED <<data, hero, edited, fvars, mvars>>

HeroNext ==
    \/ FromBytes
    \/ SetExp
    \/ SetName
    \/ SetName2
    \/ SetPortrait
    \/ SetUnknownTail
    \/ ToBytes

----------------------------------------------------------------------------
(* SaveGame.from_file and SaveGame.save_to_file *)

\* (a variant of num_heroes that rounds up)
num_heroes_ceil(file_size, chr_offset) ==
    (file_size - chr_offset + CHR_SIZE - 1) \div CHR_SIZE

\* line 322: floor division, as Python's //
num_heroes(file_size, chr_offset) == (file_size - chr_offset) \div CHR_SIZE

\* lines 324-328: the decoded records, each a Result
HeroResults(d, chr_offset) ==
    [i \in 1..num_heroes(Len(d), chr_offset) |->
        from_bytes(PySlice(d, chr_offset + (i - 1) * CHR_SIZE,
                              chr_offset + (i - 1) * CHR_SIZE + CHR_SIZE))]

\* from_file on a file holding the bytes d. unpack_from raises struct.error
\* when fewer than four bytes follow offset 16.
from_file(d) ==
    IF Len(d) - 16 < 4 THEN Raise("struct.error")
    ELSE LET chr_offset == UnpackFrom(4, d, 16)
             rs == HeroResults(d, chr_offset)
             bad == { i \in DOMAIN rs : ~rs[i].ok }
         IN  IF bad # {} THEN Raise(rs[SetMin(bad)].err)
             ELSE Ok([ version_header |-> PySlice(d, 0, 16),
                       chr_offset |-> chr_offset,
                       metadata |-> PySlice(d, 20, 30),
                       pre_hero_data |-> PySlice(d, 20, chr_offset),
                       heroes |-> [i \in DOMAIN rs |-> rs[i].val] ])

RECURSIVE Concat(_)
Concat(ss) == IF ss = <<>> THEN <<>> ELSE Head(ss) \o Concat(Tail(ss))

\* (a variant of save_to_file that writes metadata in place of pre_hero_data)
save_to_file_metadata(sg) ==
    LET rs == [i \in DOMAIN sg.heroes |-> to_bytes(sg.heroes[i])]
        bad == { i \in DOMAIN rs : ~rs[i].ok }
    IN  IF bad # {} THEN Raise(rs[SetMin(bad)].err)
        ELSE Ok(sg.version_header \o PackBytes(4, sg.chr_offset)
                \o sg.metadata
                \o Concat([i \in DOMAIN rs |-> rs[i].val]))

\* lines 339-344: the bytes save_to_file hands to f.write, or the exception
\* raised before the output file is opened
save_to_file(sg) ==
    LET rs == [i \in DOMAIN sg.heroes |-> to_bytes(sg.heroes[i])]
        bad == { i \in DOMAIN rs : ~rs[i].ok }
    IN  IF bad # {} THEN Raise(rs[SetMin(bad)].err)
        ELSE Ok(sg.version_header \o PackBytes(4, sg.chr_offset)
                \o sg.pre_hero_data
                \o Concat([i \in DOMAIN rs |-> rs[i].val]))

----------------------------------------------------------------------------
(* Inputs of the file runs *)

\* The records of a file: record i carries fill pattern i; its first name
\* field is clean or has a non-zero byte behind the terminating zero. The
\* second record belongs to group 2, the others to group 1, and byte 1 of
\* the metadata selects group 1.
RecordSeqs ==
    UNION { [1..n -> {0, 6}] : n \in 0..MaxHeroes }

FileRecords(gs) ==
    Concat([i \in DOMAIN gs |->
               MkRecord(i, NameField(3, gs[i]), NameField(2, 0),
                        IF i = 2 THEN 2 ELSE 1, CHR_SIZE)])

\* header, chr_offset, pre-hero bytes, records, trailing bytes
MkFile(off, preLen, gs, rem) ==
    [i \in 1..16 |-> 64 + i] \o PackBytes(4, off)
    \o [i \in 1..preLen |-> IF i = 2 THEN 1 ELSE (200 + i) % 256]
    \o FileRecords(gs)
    \o [i \in 1..rem |-> (90 + i) % 256]

PreLens == {0, 2, 12}
Remainders == 0..MaxRem \cup {CHR_SIZE - 1}

\* chr_offset values for a file whose records begin at 20 + preLen and whose
\* length is len: the right one, one byte further, and ones below 20 or
\* beyond the end
\* (20 + preLen + 1 is within bounds but splits the records elsewhere)
Offsets(preLen, len) ==
    {20 + preLen, 20 + preLen + 1, 0 - CHR_SIZE, -1, 0, 19, len + 1}

FileLen(preLen, gs, rem) == 20 + preLen + Len(gs) * CHR_SIZE + rem

Files ==
    UNION { { MkFile(off, preLen, gs, rem) :
                off \in Offsets(preLen, FileLen(preLen, gs, rem)) } :
            preLen \in PreLens, gs \in RecordSeqs, rem \in Remainders }

ShortFiles == { [i \in 1..n |-> 64 + i] : n \in {0, 10, 16, 19} }

----------------------------------------------------------------------------
(* File runs: load a file, write it back *)

FileInit ==
    /\ fpc = "input"
    /\ file \in Files \cup ShortFiles
    /\ savegame = NoSave
    /\ written = NoResult
    /\ ferr = "none"
    /\ hpc = "off"
    /\ data = <<>>
    /\ hero = NoHero
    /\ edited = {}
    /\ out = NoResult
    /\ herr = "none"
    /\ mpc = "off"
    /\ argv = <<>>
    /\ disk = <<>>
    /\ orig = <<>>
    /\ wlog = <<>>
    /\ msave = NoSave
    /\ output_file = <<>>
    /\ active = <<>>
    /\ cur = 0
    /\ nedit = 0
    /\ chose_save = FALSE

FromFile ==
    /\ fpc = "input"
    /\ LET r == from_file(file) IN
         IF r.ok
         THEN /\ savegame' = r.val
              /\ fpc' = "loaded"
              /\ ferr' = "none"
         ELSE /\ savegame' = savegame
              /\ fpc' = "failed"
              /\ ferr' = r.err
    /\ UNCHANGED <<file, written, hvars, mvars>>

SaveToFile ==
    /\ fpc = "loaded"
    /\ written' = save_to_file(savegame)
    /\ fpc' = IF written'.ok THEN "saved" ELSE "failed"
    /\ ferr' = written'.err
    /\ UNCHANGED <<file, savegame, hvars, mvars>>

FileNext ==
    \/ FromFile
    \/ SaveToFile

----------------------------------------------------------------------------
(* Decoder runs: both decoders, each on its own input *)

DecodeBuffers ==
    { MkRecord(0, NameField(3, 0), NameField(2, 0), 1, len) : len \in RecordLengths }

DecodeFiles ==
    ShortFiles \cup { MkFile(20, 0, gs, rem) : gs \in RecordSeqs, rem \in 0..MaxRem }

DecodeInit ==
    /\ hpc = "input"
    /\ data \in DecodeBuffers
    /\ hero = NoHero
    /\ edited = {}
    /\ out = NoResult
    /\ herr = "none"
    /\ fpc = "input"
    /\ file \in DecodeFiles
    /\ savegame = NoSave
    /\ written = NoResult
    /\ ferr = "none"
    /\ mpc = "off"
    /\ argv = <<>>
    /\ disk = <<>>
    /\ orig = <<>>
    /\ wlog = <<>>
    /\ msave = NoSave
    /\ output_file = <<>>
    /\ active = <<>>
    /\ cur = 0
    /\ nedit = 0
    /\ chose_save = FALSE

DecodeNext ==
    \/ FromBytes
    \/ FromFile

----------------------------------------------------------------------------
(* main and edit_hero *)

\* Paths are sequences of characters.
LastIndex(p, c) == SetMax({0} \cup { i \in 1..Len(p) : p[i] = c })

\* os.path.splitext: the extension starts at the last dot of the last path
\* component, unless only dots precede it there.
splitext(p) ==
    LET sep == LastIndex(p, "/")
        dot == LastIndex(p, ".")
    IN  IF dot > sep /\ \E i \in (sep + 1)..(dot - 1) : p[i] # "."
        THEN <<SubSeq(p, 1, dot - 1), SubSeq(p, dot, Len(p))>>
        ELSE <<p, <<>> >>

\* (a variant of EditedPath that returns the input path)
EditedPathSame(p) == p

\* lines 404-405: f"{base}_edited{ext}"
EditedPath(p) ==
    splitext(p)[1] \o <<"_", "e", "d", "i", "t", "e", "d">> \o splitext(p)[2]

\* line 411: the heroes of the active group, as indices into heroes
RECURSIVE ActiveFrom(_, _, _)
ActiveFrom(heroes, grp, i) ==
    IF i > Len(heroes) THEN <<>>
    ELSE (IF heroes[i].idx_heroes_group = grp THEN <<i>> ELSE <<>>)
         \o ActiveFrom(heroes, grp, i + 1)

ActiveHeroes(sg) == ActiveFrom(sg.heroes, sg.metadata[2], 1)

\* What the user does at a prompt: types a number, types something else,
\* presses Ctrl-C, or closes the input.
IntInputs == {300}
ValueInputs == { <<"int", n>> : n \in IntInputs } \cup { <<"text">>, <<"ctrlc">>, <<"eof">> }

\* The attributes edit_hero prompts for under each menu choice, in order.
EditFields(c) ==
    CASE c = "1" -> <<"exp">>
      [] c = "2" -> <<"money">>
      [] c = "3" -> <<"level">>
      [] c = "4" -> <<"vital_energy_current", "vital_energy_max">>
      [] c = "5" -> <<"astral_energy_current", "astral_energy_max">>

\* lines 369-379: each attribute is assigned as soon as int(input()) returns;
\* the first input that is no number ends the iteration. end is "int" when
\* every prompt got a number, else the kind of the input that ended it.
Prompted(h, fs, ts) ==
    IF ts[1][1] # "int" THEN [h |-> h, end |-> ts[1][1]]
    ELSE LET h1 == [h EXCEPT ![fs[1]] = ts[1][2]] IN
         IF Len(fs) = 1 THEN [h |-> h1, end |-> "int"]
         ELSE IF ts[2][1] # "int" THEN [h |-> h1, end |-> ts[2][1]]
         ELSE [h |-> [h1 EXCEPT ![fs[2]] = ts[2][2]], end |-> "int"]

\* Where control goes after an input of the given kind inside edit_hero:
\* ValueError is caught by the loop, KeyboardInterrupt exits with 0, EOFError
\* reaches main's handler and exits with 1.
AfterInput(end) ==
    CASE end = "ctrlc" -> "exit0"
      [] end = "eof" -> "exit1"
      [] OTHER -> "edit"

\* What the user types at the hero selection prompt, apart from 'save'.
SelectInputs ==
    { <<"int", n>> : n \in 0..(MaxHeroes + 1) }
    \cup { <<"exit">>, <<"junk">>, <<"ctrlc">>, <<"eof">> }

Paths == { <<"s", ".", "g">>, <<".", "g">>, <<"d", ".", "x", "/", "s">> }

MainFiles ==
    { MkFile(32, 12, [i \in 1..MaxHeroes |-> 0], 0),
      MkFile(20, 1, <<>>, 0),
      [i \in 1..10 |-> 64 + i] }

MainInit ==
    /\ mpc = "start"
    /\ \/ /\ argv = <<>>
          /\ disk = <<>>
       \/ \E p \in Paths :
            /\ argv = <<p>>
            /\ \/ disk = <<>>
               \/ \E c \in MainFiles : disk = (p :> c)
    /\ orig = disk
    /\ wlog = <<>>
    /\ msave = NoSave
    /\ output_file = <<>>
    /\ active = <<>>
    /\ cur = 0
    /\ nedit = 0
    /\ chose_save = FALSE
    /\ hpc = "off"
    /\ data = <<>>
    /\ hero = NoHero
    /\ edited = {}
    /\ out = NoResult
    /\ herr = "none"
    /\ fpc = "off"
    /\ file = <<>>
    /\ savegame = NoSave
    /\ written = NoResult
    /\ ferr = "none"

\* lines 389-416: main up to its first prompt
MainStart ==
    /\ mpc = "start"
    /\ IF Len(argv) # 1 \/ argv[1] \notin DOMAIN disk
       THEN /\ mpc' = "exit1"
            /\ UNCHANGED <<msave, output_file, active>>
       ELSE LET r == from_file(disk[argv[1]]) IN
            IF ~r.ok
            THEN /\ mpc' = "exit1"
                 /\ UNCHANGED <<msave, output_file, active>>
            ELSE /\ msave' = r.val
                 /\ output_file' = EditedPath(argv[1])
                 /\ IF Len(r.val.metadata) < 2
                    THEN /\ mpc' = "exit1"
                         /\ active' = active
                    ELSE /\ mpc' = "select"
                         /\ active' = ActiveHeroes(r.val)
    /\ UNCHANGED <<argv, disk, orig, wlog, cur, nedit, chose_save, hvars, fvars>>

\* lines 419-438: one iteration of the hero selection loop that does not save
MainSelect ==
    /\ mpc = "select"
    /\ \E c \in SelectInputs :
         IF c[1] \in {"exit", "ctrlc"}
         THEN mpc' = "exit0" /\ cur' = cur
         ELSE IF c[1] = "eof"
         THEN mpc' = "exit1" /\ cur' = cur
         ELSE IF c[1] = "int" /\ 0 <= c[2] - 1 /\ c[2] - 1 < Len(active)
         THEN mpc' = "edit" /\ cur' = c[2]
         ELSE mpc' = mpc /\ cur' = cur
    /\ UNCHANGED <<argv, disk, orig, wlog, msave, output_file, active, nedit,
                   chose_save, hvars, fvars>>

\* lines 426-427, 441-447: 'save' leaves the loop and main writes the output
MainSave ==
    /\ mpc = "select"
    /\ chose_save' = TRUE
    /\ LET r == save_to_file(msave) IN
         IF r.ok
         THEN /\ disk' = (output_file :> r.val) @@ disk
              /\ wlog' = Append(wlog, output_file)
              /\ mpc' = "done"
         ELSE /\ mpc' = "exit1"
              /\ UNCHANGED <<disk, wlog>>
    /\ UNCHANGED <<argv, orig, msave, output_file, active, cur, nedit, hvars, fvars>>

\* lines 351-386: one iteration of edit_hero's loop that prompts for no value
EditMenu ==
    /\ mpc = "edit"
    /\ \E c \in {"0", "6", "9", "ctrlc", "eof"} :
         mpc' = CASE c \in {"0", "ctrlc"} -> "exit0"
                  [] c = "6" -> "select"
                  [] c = "eof" -> "exit1"
                  [] OTHER -> "edit"
    /\ UNCHANGED <<argv, disk, orig, wlog, msave, output_file, active, cur, nedit,
                   chose_save, hvars, fvars>>

\* lines 368-379: one iteration of edit_hero's loop under a choice 1..5
EditValue ==
    /\ mpc = "edit"
    /\ nedit < MaxEdits
    /\ \E c \in {"1", "2", "3", "4", "5"} :
       \E ts \in ValueInputs \X ValueInputs :
         LET r == Prompted(msave.heroes[active[cur]], EditFields(c), ts) IN
           /\ msave' = [msave EXCEPT !.heroes[active[cur]] = r.h]
           /\ mpc' = AfterInput(r.end)
    /\ nedit' = nedit + 1
    /\ UNCHANGED <<argv, disk, orig, wlog, output_file, active, cur, chose_save,
                   hvars, fvars>>

MainNext ==
    \/ MainStart
    \/ MainSelect
    \/ MainSave
    \/ EditMenu
    \/ EditValue

----------------------------------------------------------------------------
(* Specifications *)

SpecHero == HeroInit /\ [][HeroNext]_vars

SpecFile == FileInit /\ [][FileNext]_vars

SpecMain == MainInit /\ [][MainNext]_vars

SpecDecode == DecodeInit /\ [][DecodeNext]_vars

----------------------------------------------------------------------------
(* Properties of the record codec, stated for SpecHero *)

\* The 16-byte field starting at (1-based) position lo holds only zero
\* bytes behind its first zero byte.
CleanField(d, lo) ==
    \A i \in lo..(lo + 15) : d[i] = 0 => \A j \in i..(lo + 15) : d[j] = 0

CleanNames(d) == CleanField(d, 1) /\ CleanField(d, 17)

\* Bytes 40..43 of b hold v as a little-endian signed 32-bit integer.
HoldsExp(b, v) ==
    /\ b[41] = v % 256
    /\ b[42] = (v \div 256) % 256
    /\ b[43] = (v \div 65536) % 256
    /\ b[44] = (v \div 16777216) % 256

\* C1 as stated: encoding the Hero decoded from any 1754-byte buffer gives
\* back the buffer, byte for byte.
C1_RoundTripEveryBuffer ==
    (out # NoResult /\ edited = {} /\ Len(data) = CHR_SIZE)
        => (out.ok /\ out.val = data)

\* C1 as amended: encoding the Hero decoded from a 1754-byte buffer gives
\* back the buffer whenever both name fields of the buffer hold only zero
\* bytes behind their first zero byte.
C1_RoundTrip ==
    (out # NoResult /\ edited = {} /\ Len(data) = CHR_SIZE /\ CleanNames(data))
        => (out.ok /\ out.val = data)

C1_Witness ==
    /\ hpc = "encoded"
    /\ edited = {}
    /\ Len(data) = CHR_SIZE
    /\ CleanNames(data)
    /\ data[1] # 0
    /\ out.val = data

\* C3 as stated: after only exp was set on the Hero decoded from a
\* 1754-byte record, the encoded record holds the new value in bytes 40..43
\* and equals the original record at every other byte.
C3_ExpIsolatedEveryRecord ==
    (out # NoResult /\ edited = {"exp"} /\ Len(data) = CHR_SIZE)
        => /\ out.ok
           /\ Len(out.val) = CHR_SIZE
           /\ HoldsExp(out.val, hero.exp)
           /\ \A i \in 1..CHR_SIZE : i \notin 41..44 => out.val[i] = data[i]

\* C3 as amended: the same, for records whose two name fields hold only
\* zero bytes behind their first zero byte.
C3_ExpIsolated ==
    (out # NoResult /\ edited = {"exp"} /\ Len(data) = CHR_SIZE /\ CleanNames(data))
        => /\ out.ok
           /\ Len(out.val) = CHR_SIZE
           /\ HoldsExp(out.val, hero.exp)
           /\ \A i \in 1..CHR_SIZE : i \notin 41..44 => out.val[i] = data[i]

C3_Witness ==
    /\ hpc = "encoded"
    /\ edited = {"exp"}
    /\ Len(data) = CHR_SIZE
    /\ CleanNames(data)
    /\ hero.exp = -2
    /\ out.val # data

\* C5: to_bytes fails when name or name2 encodes to more than 16 bytes.
C5_NameOverflowRejected ==
    (out # NoResult /\ (Len(hero.name) > 16 \/ Len(hero.name2) > 16))
        => ~out.ok

\* C6: to_bytes fails when the portrait is not exactly 1024 bytes long.
C6_PortraitSizeRejected ==
    (out # NoResult /\ Len(hero.portrait) # 1024) => ~out.ok

\* C7: to_bytes stores a 591-byte unknown_tail verbatim at bytes 1163..1753
\* and fails when unknown_tail has any other length.
C7_TailLengthChecked ==
    out # NoResult =>
        /\ (Len(hero.unknown_tail) = 591 /\ out.ok)
              => SubSeq(out.val, 1164, 1754) = hero.unknown_tail
        /\ Len(hero.unknown_tail) # 591 => ~out.ok

----------------------------------------------------------------------------
(* Properties of the file codec, stated for SpecFile *)

\* The little-endian signed 32-bit integer at byte 16 of f.
ChrOffsetOf(f) ==
    f[17] + 256 * f[18] + 65536 * f[19]
    + 16777216 * (IF f[20] >= 128 THEN f[20] - 256 ELSE f[20])

InBounds(f) ==
    Len(f) >= 20 /\ 20 <= ChrOffsetOf(f) /\ ChrOffsetOf(f) <= Len(f)

RecordCount(f) == (Len(f) - ChrOffsetOf(f)) \div CHR_SIZE
Remainder(f) == (Len(f) - ChrOffsetOf(f)) % CHR_SIZE

RecordAt(f, k) ==
    SubSeq(f, ChrOffsetOf(f) + k * CHR_SIZE + 1, ChrOffsetOf(f) + (k + 1) * CHR_SIZE)

AllCleanNames(f) ==
    \A k \in 0..(RecordCount(f) - 1) : CleanNames(RecordAt(f, k))

\* C2 as stated: a file with chr_offset in bounds and no remainder is
\* loaded, and saving it untouched writes exactly its bytes.
C2_FileRoundTripEveryFile ==
    (fpc # "input" /\ InBounds(file) /\ Remainder(file) = 0)
        => /\ fpc # "failed"
           /\ fpc = "saved" => written.val = file

\* C2 as amended: the same, for files in which the name fields of every
\* hero record hold only zero bytes behind their first zero byte.
C2_FileRoundTrip ==
    (fpc # "input" /\ InBounds(file) /\ Remainder(file) = 0 /\ AllCleanNames(file))
        => /\ fpc # "failed"
           /\ fpc = "saved" => written.val = file

C2_Witness ==
    /\ fpc = "saved"
    /\ InBounds(file)
    /\ Remainder(file) = 0
    /\ AllCleanNames(file)
    /\ RecordCount(file) = 2
    /\ ChrOffsetOf(file) > 30
    /\ written.val = file

\* C8: from_file fails on a file of at least 20 bytes whose chr_offset is
\* below 20 or beyond the end of the file, and returns no SaveGame.
C8_OffsetValidated ==
    (fpc # "input" /\ Len(file) >= 20
        /\ (ChrOffsetOf(file) < 20 \/ ChrOffsetOf(file) > Len(file)))
        => (fpc = "failed" /\ savegame = NoSave)

\* C10 as stated: a file with chr_offset in bounds and r > 0 trailing bytes
\* is loaded with count heroes, and saving it untouched writes exactly its
\* first chr_offset + count * 1754 bytes.
C10_RemainderDroppedEveryFile ==
    (fpc # "input" /\ InBounds(file) /\ Remainder(file) > 0)
        => /\ fpc # "failed"
           /\ Len(savegame.heroes) = RecordCount(file)
           /\ fpc = "saved" =>
                written.val = SubSeq(file, 1, ChrOffsetOf(file)
                                               + RecordCount(file) * CHR_SIZE)

\* C10 as amended: the same, for files in which the name fields of every
\* whole hero record hold only zero bytes behind their first zero byte.
C10_RemainderDropped ==
    (fpc # "input" /\ InBounds(file) /\ Remainder(file) > 0 /\ AllCleanNames(file))
        => /\ fpc # "failed"
           /\ Len(savegame.heroes) = RecordCount(file)
           /\ fpc = "saved" =>
                written.val = SubSeq(file, 1, ChrOffsetOf(file)
                                               + RecordCount(file) * CHR_SIZE)

C10_Witness ==
    /\ fpc = "saved"
    /\ InBounds(file)
    /\ Remainder(file) > 0
    /\ AllCleanNames(file)
    /\ RecordCount(file) >= 1
    /\ Len(written.val) < Len(file)
    /\ written.val = SubSeq(file, 1, Len(written.val))

----------------------------------------------------------------------------
(* Truncation, stated for SpecDecode *)

\* C9: from_bytes fails on every buffer shorter than 1754 bytes and returns
\* no Hero; from_file fails on every file shorter than 20 bytes and returns
\* no SaveGame.
C9_TruncationDetected ==
    /\ (hpc # "input" /\ Len(data) < CHR_SIZE)
          => (hpc = "failed" /\ herr # "none" /\ hero = NoHero)
    /\ (fpc # "input" /\ Len(file) < 20)
          => (fpc = "failed" /\ ferr # "none" /\ savegame = NoSave)

C9_Witness ==
    /\ hpc = "failed"
    /\ Len(data) = CHR_SIZE - 1
    /\ fpc = "failed"
    /\ Len(file) = 19

----------------------------------------------------------------------------
(* The editor, stated for SpecMain *)

\* '<base>_edited<ext>' for the paths of the model, written out by hand
DerivedPath(p) ==
    CASE p = <<"s", ".", "g">> -> <<"s", "_", "e", "d", "i", "t", "e", "d", ".", "g">>
      [] p = <<".", "g">> -> <<".", "g", "_", "e", "d", "i", "t", "e", "d">>
      [] p = <<"d", ".", "x", "/", "s">> ->
            <<"d", ".", "x", "/", "s", "_", "e", "d", "i", "t", "e", "d">>

\* C4: the input file is never written; the only write is one save_to_file
\* to '<base>_edited<ext>', a path other than the input path, after the user
\* chose 'save'; a run that ends by exit, interrupt or error writes nothing.
C4_InputNeverWritten ==
    /\ \A p \in DOMAIN orig : p \in DOMAIN disk /\ disk[p] = orig[p]
    /\ Len(wlog) <= 1
    /\ wlog # <<>> =>
          /\ chose_save
          /\ mpc = "done"
          /\ wlog[1] = DerivedPath(argv[1])
          /\ wlog[1] # argv[1]
          /\ DOMAIN disk = DOMAIN orig \cup {wlog[1]}
    /\ wlog = <<>> => disk = orig
    /\ mpc \in {"exit0", "exit1"} => wlog = <<>>

C4_Witness ==
    /\ mpc = "done"
    /\ nedit > 0
    /\ wlog = <<DerivedPath(argv[1])>>
    /\ disk[wlog[1]] # disk[argv[1]]
    /\ disk[argv[1]] = orig[argv[1]]

====
